---- MODULE Spec2Model ----
(***************************************************************************)
(* Model of the DES engine of the IoT water tank firmware                  *)
(* (src/esp32/des_crypto.py).                                              *)
(*                                                                         *)
(* A Python int that holds a 32-bit quantity is modelled as a word: a      *)
(* sequence of 32 bits, most significant bit first (w[1] is bit 31,        *)
(* w[32] is bit 0).  The shift, mask and or operations of the source are   *)
(* the operators Shr, Shl, And, Or, Xor on words.  Bytes, code points and  *)
(* small indices are integers; strings are sequences of code points; a hex *)
(* string is a sequence of one-character strings.                          *)
(***************************************************************************)
EXTENDS Integers, Sequences, FiniteSets, TLC

(* ------------------------------ tables --------------------------------- *)
IP ==
   <<
      58, 50, 42, 34, 26, 18, 10, 2,
      60, 52, 44, 36, 28, 20, 12, 4,
      62, 54, 46, 38, 30, 22, 14, 6,
      64, 56, 48, 40, 32, 24, 16, 8,
      57, 49, 41, 33, 25, 17, 9, 1,
      59, 51, 43, 35, 27, 19, 11, 3,
      61, 53, 45, 37, 29, 21, 13, 5,
      63, 55, 47, 39, 31, 23, 15, 7 >>

FP ==
   <<
      40, 8, 48, 16, 56, 24, 64, 32,
      39, 7, 47, 15, 55, 23, 63, 31,
      38, 6, 46, 14, 54, 22, 62, 30,
      37, 5, 45, 13, 53, 21, 61, 29,
      36, 4, 44, 12, 52, 20, 60, 28,
      35, 3, 43, 11, 51, 19, 59, 27,
      34, 2, 42, 10, 50, 18, 58, 26,
      33, 1, 41, 9, 49, 17, 57, 25 >>

E ==
   <<
      32, 1, 2, 3, 4, 5,
      4, 5, 6, 7, 8, 9,
      8, 9, 10, 11, 12, 13,
      12, 13, 14, 15, 16, 17,
      16, 17, 18, 19, 20, 21,
      20, 21, 22, 23, 24, 25,
      24, 25, 26, 27, 28, 29,
      28, 29, 30, 31, 32, 1 >>

P ==
   <<
      16, 7, 20, 21, 29, 12, 28, 17,
      1, 15, 23, 26, 5, 18, 31, 10,
      2, 8, 24, 14, 32, 27, 3, 9,
      19, 13, 30, 6, 22, 11, 4, 25 >>

PC1 ==
   <<
      57, 49, 41, 33, 25, 17, 9,
      1, 58, 50, 42, 34, 26, 18,
      10, 2, 59, 51, 43, 35, 27,
      19, 11, 3, 60, 52, 44, 36,
      63, 55, 47, 39, 31, 23, 15,
      7, 62, 54, 46, 38, 30, 22,
      14, 6, 61, 53, 45, 37, 29,
      21, 13, 5, 28, 20, 12, 4 >>

PC2 ==
   <<
      14, 17, 11, 24, 1, 5,
      3, 28, 15, 6, 21, 10,
      23, 19, 12, 4, 26, 8,
      16, 7, 27, 20, 13, 2,
      41, 52, 31, 37, 47, 55,
      30, 40, 51, 45, 33, 48,
      44, 49, 39, 56, 34, 53,
      46, 42, 50, 36, 29, 32 >>

SHIFTS ==
   <<
      1, 1, 2, 2, 2, 2, 2, 2, 1, 2, 2, 2, 2, 2, 2, 1 >>

S_BOXES ==
   <<
   <<
      14, 4, 13, 1, 2, 15, 11, 8, 3, 10, 6, 12, 5, 9, 0, 7,
      0, 15, 7, 4, 14, 2, 13, 1, 10, 6, 12, 11, 9, 5, 3, 8,
      4, 1, 14, 8, 13, 6, 2, 11, 15, 12, 9, 7, 3, 10, 5, 0,
      15, 12, 8, 2, 4, 9, 1, 7, 5, 11, 3, 14, 10, 0, 6, 13 >>,
   <<
      15, 1, 8, 14, 6, 11, 3, 4, 9, 7, 2, 13, 12, 0, 5, 10,
      3, 13, 4, 7, 15, 2, 8, 14, 12, 0, 1, 10, 6, 9, 11, 5,
      0, 14, 7, 11, 10, 4, 13, 1, 5, 8, 12, 6, 9, 3, 2, 15,
      13, 8, 10, 1, 3, 15, 4, 2, 11, 6, 7, 12, 0, 5, 14, 9 >>,
   <<
      10, 0, 9, 14, 6, 3, 15, 5, 1, 13, 12, 7, 11, 4, 2, 8,
      13, 7, 0, 9, 3, 4, 6, 10, 2, 8, 5, 14, 12, 11, 15, 1,
      13, 6, 4, 9, 8, 15, 3, 0, 11, 1, 2, 12, 5, 10, 14, 7,
      1, 10, 13, 0, 6, 9, 8, 7, 4, 15, 14, 3, 11, 5, 2, 12 >>,
   <<
      7, 13, 14, 3, 0, 6, 9, 10, 1, 2, 8, 5, 11, 12, 4, 15,
      13, 8, 11, 5, 6, 15, 0, 3, 4, 7, 2, 12, 1, 10, 14, 9,
      10, 6, 9, 0, 12, 11, 7, 13, 15, 1, 3, 14, 5, 2, 8, 4,
      3, 15, 0, 6, 10, 1, 13, 8, 9, 4, 5, 11, 12, 7, 2, 14 >>,
   <<
      2, 12, 4, 1, 7, 10, 11, 6, 8, 5, 3, 15, 13, 0, 14, 9,
      14, 11, 2, 12, 4, 7, 13, 1, 5, 0, 15, 10, 3, 9, 8, 6,
      4, 2, 1, 11, 10, 13, 7, 8, 15, 9, 12, 5, 6, 3, 0, 14,
      11, 8, 12, 7, 1, 14, 2, 13, 6, 15, 0, 9, 10, 4, 5, 3 >>,
   <<
      12, 1, 10, 15, 9, 2, 6, 8, 0, 13, 3, 4, 14, 7, 5, 11,
      10, 15, 4, 2, 7, 12, 9, 5, 6, 1, 13, 14, 0, 11, 3, 8,
      9, 14, 15, 5, 2, 8, 12, 3, 7, 0, 4, 10, 1, 13, 11, 6,
      4, 3, 2, 12, 9, 5, 15, 10, 11, 14, 1, 7, 6, 0, 8, 13 >>,
   <<
      4, 11, 2, 14, 15, 0, 8, 13, 3, 12, 9, 7, 5, 10, 6, 1,
      13, 0, 11, 7, 4, 9, 1, 10, 14, 3, 5, 12, 2, 15, 8, 6,
      1, 4, 11, 13, 12, 3, 7, 14, 10, 15, 6, 8, 0, 5, 9, 2,
      6, 11, 13, 8, 1, 4, 10, 7, 9, 5, 0, 15, 14, 2, 3, 12 >>,
   <<
      13, 2, 8, 4, 6, 15, 11, 1, 10, 9, 3, 14, 5, 0, 12, 7,
      1, 15, 13, 8, 10, 3, 7, 4, 12, 5, 6, 11, 0, 14, 9, 2,
      7, 11, 4, 1, 9, 12, 14, 2, 0, 6, 10, 13, 15, 3, 5, 8,
      2, 1, 14, 7, 4, 10, 8, 13, 15, 12, 9, 0, 3, 5, 6, 11 >> >>
(* ------------------------- 32-bit word arithmetic ---------------------- *)
\* 2^n for n in 0..30
Pow2(n) ==
   << 1, 2, 4, 8, 16, 32, 64, 128, 256, 512, 1024, 2048, 4096, 8192, 16384,
      32768, 65536, 131072, 262144, 524288, 1048576, 2097152, 4194304,
      8388608, 16777216, 33554432, 67108864, 134217728, 268435456,
      536870912, 1073741824 >>[n + 1]

\* the word whose bit at index j (1 = most significant) is f[j]
MkWord(f) ==
   << f[1],  f[2],  f[3],  f[4],  f[5],  f[6],  f[7],  f[8],
      f[9],  f[10], f[11], f[12], f[13], f[14], f[15], f[16],
      f[17], f[18], f[19], f[20], f[21], f[22], f[23], f[24],
      f[25], f[26], f[27], f[28], f[29], f[30], f[31], f[32] >>

\* the values of a 32-bit quantity
Words32 == [1..32 -> {0, 1}]

Zero32 ==
   MkWord([j \in 1..32 |-> 0])

\* the word holding the non-negative integer n < 2^31
Word(n) ==
   MkWord([j \in 1..32 |->
             IF j = 1 THEN 0 ELSE (n \div Pow2(32 - j)) % 2])

\* the integer held by a word whose bit 31 is clear
WordVal(w) ==
   LET val[j \in 1..32] == IF j = 1 THEN 0 ELSE 2 * val[j - 1] + w[j]
   IN  val[32]

\* w >> k
Shr(w, k) ==
   MkWord([j \in 1..32 |-> IF j - k >= 1 THEN w[j - k] ELSE 0])

\* (w << k) & 0xFFFFFFFF
Shl(w, k) ==
   MkWord([j \in 1..32 |-> IF j + k <= 32 THEN w[j + k] ELSE 0])

And(a, b) ==
   MkWord([j \in 1..32 |-> IF a[j] = 1 /\ b[j] = 1 THEN 1 ELSE 0])

Or(a, b) ==
   MkWord([j \in 1..32 |-> IF a[j] = 1 \/ b[j] = 1 THEN 1 ELSE 0])

Xor(a, b) ==
   MkWord([j \in 1..32 |-> IF a[j] = b[j] THEN 0 ELSE 1])

\* w & ~(1 << k)
ClearBit(w, k) ==
   [w EXCEPT ![32 - k] = 0]

\* w | (1 << k)
SetBit(w, k) ==
   [w EXCEPT ![32 - k] = 1]

\* (w >> k) & 1
BitAt(w, k) ==
   w[32 - k]

\* the 8 bits of a byte, most significant first
ByteBits(b) ==
   << (b \div 128) % 2, (b \div 64) % 2, (b \div 32) % 2, (b \div 16) % 2,
      (b \div 8) % 2, (b \div 4) % 2, (b \div 2) % 2, b % 2 >>

\* (w >> k) & 0xFF as an integer
ByteAt(w, k) ==
   LET s == Shr(w, k)
   IN  128 * s[25] + 64 * s[26] + 32 * s[27] + 16 * s[28]
       + 8 * s[29] + 4 * s[30] + 2 * s[31] + s[32]

(* ---------------------------- utility functions ------------------------ *)
\* data is a sequence of 8 bytes; Python's data[i] is data[i + 1] here
bytes_to_int64(data) ==
   LET high == ByteBits(data[1]) \o ByteBits(data[2])
               \o ByteBits(data[3]) \o ByteBits(data[4])
       low  == ByteBits(data[5]) \o ByteBits(data[6])
               \o ByteBits(data[7]) \o ByteBits(data[8])
   IN  <<high, low>>

int64_to_bytes(high, low) ==
   << ByteAt(high, 24), ByteAt(high, 16), ByteAt(high, 8), ByteAt(high, 0),
      ByteAt(low, 24), ByteAt(low, 16), ByteAt(low, 8), ByteAt(low, 0) >>

get_bit(high, low, pos) ==
   IF pos <= 32
   THEN BitAt(low, 32 - pos)
   ELSE BitAt(high, 64 - pos)

set_bit(high, low, pos, value) ==
   IF pos <= 32
   THEN LET bit_pos == 32 - pos
        IN  IF value # 0
            THEN <<high, SetBit(low, bit_pos)>>
            ELSE <<high, ClearBit(low, bit_pos)>>
   ELSE LET bit_pos == 64 - pos
        IN  IF value # 0
            THEN <<SetBit(high, bit_pos), low>>
            ELSE <<ClearBit(high, bit_pos), low>>

\* permute_span[<<high, low, perm_table, first, last, result>>] is
\* (result_high, result_low) after the passes i = first .. last of the loop
\* of permute, in order, starting from result; Python's perm_table[i] is
\* perm_table[i + 1] here.  The span is halved to keep the evaluation shallow.
PermuteArgs ==
   Words32 \X Words32 \X Seq(1..64) \X (0..64) \X (-1..63)
      \X (Words32 \X Words32)

permute_span[a \in PermuteArgs] ==
   LET high       == a[1]
       low        == a[2]
       perm_table == a[3]
       first      == a[4]
       last       == a[5]
       result     == a[6]
   IN  IF first > last
       THEN result
       ELSE IF first = last
       THEN LET i == first
                source_bit == get_bit(high, low, perm_table[i + 1])
            IN  set_bit(result[1], result[2], i + 1, source_bit)
       ELSE LET mid == (first + last) \div 2
            IN  permute_span[<<high, low, perm_table, mid + 1, last,
                   permute_span[<<high, low, perm_table, first, mid, result>>]>>]

permute(high, low, perm_table) ==
   permute_span[<<high, low, perm_table, 0, Len(perm_table) - 1,
                  <<Zero32, Zero32>>>>]

\* permute applied to a (high, low) pair
permute_pair(hl, perm_table) ==
   permute(hl[1], hl[2], perm_table)

\* the shift alone: the bits pushed out at the top are lost
left_rotate_28_lossy(value, amount) ==
   LET mask == Word(268435455)
       v    == And(value, mask)
   IN  And(Shl(v, amount), mask)

left_rotate_28(value, amount) ==
   LET mask == Word(268435455)
       v    == And(value, mask)
   IN  And(Or(Shl(v, amount), Shr(v, 28 - amount)), mask)

(* ------------------------------ key schedule --------------------------- *)
\* round_keys_loop[<<C, D, round_num, round_keys>>] is round_keys after the
\* passes round_num .. 15 of the loop of generate_round_keys; Python's
\* SHIFTS[round_num] is SHIFTS[round_num + 1] here
RoundKeysArgs ==
   Words32 \X Words32 \X (0..16) \X Seq(Words32 \X Words32)

round_keys_loop[a \in RoundKeysArgs] ==
   LET round_num  == a[3]
       round_keys == a[4]
   IN  IF round_num >= 16
       THEN round_keys
       ELSE LET C == left_rotate_28(a[1], SHIFTS[round_num + 1])
                D == left_rotate_28(a[2], SHIFTS[round_num + 1])
                combined_high == Or(Shl(C, 4), Shr(D, 24))
                combined_low  == Shl(D, 8)
                round_key == permute(combined_high, combined_low, PC2)
            IN  round_keys_loop[<<C, D, round_num + 1,
                                  Append(round_keys, round_key)>>]

\* C = perm_high >> 4 and D = ((perm_high & 0xF) << 24) | (perm_low >> 8)
split_halves(perm) ==
   <<Shr(perm[1], 4),
     Or(Shl(And(perm[1], Word(15)), 24), Shr(perm[2], 8))>>

\* the loop run on the two halves
rotate_from(CD) ==
   round_keys_loop[<<CD[1], CD[2], 0, <<>>>>]

\* the split, then the loop
split_and_rotate(perm) ==
   rotate_from(split_halves(perm))

\* rotate_loop[<<C, D, round_num, halves>>] is halves followed by the (C, D)
\* that the passes round_num .. 15 of the loop of generate_round_keys leave
RotateArgs ==
   Words32 \X Words32 \X (0..16) \X Seq(Words32 \X Words32)

rotate_loop[a \in RotateArgs] ==
   LET round_num == a[3]
       halves    == a[4]
   IN  IF round_num >= 16
       THEN halves
       ELSE LET C == left_rotate_28(a[1], SHIFTS[round_num + 1])
                D == left_rotate_28(a[2], SHIFTS[round_num + 1])
            IN  rotate_loop[<<C, D, round_num + 1, Append(halves, <<C, D>>)>>]

\* the locals of generate_round_keys: the PC1 output, C and D before the
\* loop and after each pass
generate_round_keys_locals(key_bytes) ==
   LET perm == permute_pair(bytes_to_int64(key_bytes), PC1)
       CD   == split_halves(perm)
   IN  [perm   |-> perm,
        CD     |-> CD,
        halves |-> rotate_loop[<<CD[1], CD[2], 0, <<>>>>]]

generate_round_keys(key_bytes) ==
   split_and_rotate(permute_pair(bytes_to_int64(key_bytes), PC1))

(* ------------------------------ round function ------------------------- *)
\* the 6-bit group that f_function hands to S-box i (0-based)
six_bits_of(xored_high, xored_low, i) ==
   IF i < 4
   THEN LET shift == 26 - (i * 6)
        IN  WordVal(And(Shr(xored_high, shift), Word(63)))
   ELSE LET shift == 26 - ((i - 4) * 6)
        IN  WordVal(And(Shr(xored_low, shift), Word(63)))

\* the 4-bit value S-box i (0-based) gives for a 6-bit group
sbox_lookup(i, six_bits) ==
   LET row == 2 * ((six_bits \div 32) % 2) + (six_bits % 2)
       col == (six_bits \div 2) % 16
   IN  S_BOXES[i + 1][row * 16 + col + 1]

\* sbox_loop[<<xored, i, sbox_output>>] is sbox_output after the passes
\* i .. 7 of the S-box loop, xored being (xored_high, xored_low)
SboxArgs ==
   (Words32 \X Words32) \X (0..8) \X Words32

sbox_loop[a \in SboxArgs] ==
   LET xored_high  == a[1][1]
       xored_low   == a[1][2]
       i           == a[2]
       sbox_output == a[3]
   IN  IF i >= 8
       THEN sbox_output
       ELSE LET six_bits   == six_bits_of(xored_high, xored_low, i)
                sbox_value == sbox_lookup(i, six_bits)
            IN  sbox_loop[<<a[1], i + 1,
                   Or(sbox_output, Shl(Word(sbox_value), 28 - (i * 4)))>>]

\* (expanded_high ^ round_key_high, expanded_low ^ round_key_low)
xor_round_key(expanded, round_key_high, round_key_low) ==
   <<Xor(expanded[1], round_key_high), Xor(expanded[2], round_key_low)>>

\* the locals of f_function before the P permutation: (xored_high,
\* xored_low) and the six_bits of the passes i = 0 .. 7
f_function_locals(R, round_key_high, round_key_low) ==
   LET xored == xor_round_key(permute(Zero32, R, E),
                              round_key_high, round_key_low)
   IN  [xored    |-> xored,
        six_bits |-> [n \in 1..8 |->
                        six_bits_of(xored[1], xored[2], n - 1)]]

f_function(R, round_key_high, round_key_low) ==
   LET expanded    == permute(Zero32, R, E)
       xored       == xor_round_key(expanded, round_key_high, round_key_low)
       sbox_output == sbox_loop[<<xored, 0, Zero32>>]
   IN  permute(Zero32, sbox_output, P)[2]

(* ------------------------------ block cipher --------------------------- *)
\* feistel_loop[<<LR, round_keys, order>>] is (L, R) after one pass of the
\* round loop for each round_num of order, in order, starting from
\* LR = (L, R); Python's round_keys[round_num] is round_keys[round_num + 1]
FeistelArgs ==
   (Words32 \X Words32) \X Seq(Words32 \X Words32) \X Seq(0..15)

feistel_loop[a \in FeistelArgs] ==
   LET L          == a[1][1]
       R          == a[1][2]
       round_keys == a[2]
       order      == a[3]
   IN  IF order = <<>>
       THEN <<L, R>>
       ELSE LET round_num == Head(order)
                rk    == round_keys[round_num + 1]
                new_R == Xor(L, f_function(R, rk[1], rk[2]))
            IN  feistel_loop[<<<<R, new_R>>, round_keys, Tail(order)>>]

\* range(16) and range(15, -1, -1)
forward_rounds == <<0, 1, 2, 3, 4, 5, 6, 7, 8, 9, 10, 11, 12, 13, 14, 15>>

\* the reverse order lost: the round keys taken as for encryption
reverse_rounds_same ==
   <<0, 1, 2, 3, 4, 5, 6, 7, 8, 9, 10, 11, 12, 13, 14, 15>>

reverse_rounds == <<15, 14, 13, 12, 11, 10, 9, 8, 7, 6, 5, 4, 3, 2, 1, 0>>

\* the halves handed over in the order of the rounds, L first
final_permutation_unswapped(LR) ==
   permute(LR[1], LR[2], FP)

\* permute(R, L, FP), for LR = (L, R)
final_permutation(LR) ==
   permute(LR[2], LR[1], FP)

bytes_of_pair(hl) ==
   int64_to_bytes(hl[1], hl[2])

\* L, R = perm_high, perm_low: the permuted pair is (L, R)
des_encrypt_block(block_bytes, key_bytes) ==
   LET round_keys == generate_round_keys(key_bytes)
       perm  == permute_pair(bytes_to_int64(block_bytes), IP)
       LR    == feistel_loop[<<perm, round_keys, forward_rounds>>]
       final == final_permutation(LR)
   IN  bytes_of_pair(final)

\* the locals of des_encrypt_block: L and R as split from the permuted
\* block, L and R after round 16, and the result of permute(R, L, FP)
block_locals(perm, LR) ==
   [L0 |-> perm[1], R0 |-> perm[2], L16 |-> LR[1], R16 |-> LR[2],
    final |-> final_permutation(LR)]

rounds_locals(perm, round_keys) ==
   block_locals(perm, feistel_loop[<<perm, round_keys, forward_rounds>>])

des_encrypt_block_locals(block_bytes, key_bytes) ==
   rounds_locals(permute_pair(bytes_to_int64(block_bytes), IP),
                 generate_round_keys(key_bytes))

des_decrypt_block(block_bytes, key_bytes) ==
   LET round_keys == generate_round_keys(key_bytes)
       perm  == permute_pair(bytes_to_int64(block_bytes), IP)
       LR    == feistel_loop[<<perm, round_keys, reverse_rounds>>]
       final == final_permutation(LR)
   IN  bytes_of_pair(final)

(* ------------------------- outcomes of a function ---------------------- *)
\* a function returns a value or raises; exc is "none" or the exception
Ok(v) ==
   [exc |-> "none", val |-> v]

Raise(e) ==
   [exc |-> e, val |-> <<>>]

Bytes == 0..255

(* --------------------- str.encode / bytes.decode (UTF-8) --------------- *)
\* the UTF-8 bytes of one code point
utf8_of(c) ==
   IF c < 128
   THEN <<c>>
   ELSE IF c < 2048
   THEN <<192 + (c \div 64), 128 + (c % 64)>>
   ELSE IF c < 65536
   THEN <<224 + (c \div 4096), 128 + ((c \div 64) % 64), 128 + (c % 64)>>
   ELSE <<240 + (c \div 262144), 128 + ((c \div 4096) % 64),
          128 + ((c \div 64) % 64), 128 + (c % 64)>>

IsSurrogate(c) ==
   c >= 55296 /\ c <= 57343

RECURSIVE utf8_concat(_)
utf8_concat(s) ==
   IF s = <<>> THEN <<>> ELSE utf8_of(Head(s)) \o utf8_concat(Tail(s))

\* s.encode('utf-8') for a string s given as its code points
str_encode(s) ==
   IF \E n \in 1..Len(s) : IsSurrogate(s[n])
   THEN Raise("UnicodeError")
   ELSE Ok(utf8_concat(s))

IsCont(b) ==
   b >= 128 /\ b <= 191

\* decode_from[<<data, i, acc>>]: decode data from index i on, acc holding
\* the code points decoded so far
DecodeArgs ==
   Seq(Bytes) \X (1..1000) \X Seq(0..1114111)

decode_from[a \in DecodeArgs] ==
   LET data == a[1]
       i    == a[2]
       acc  == a[3]
       left == Len(data) - i + 1
       b0   == data[i]
   IN  IF left <= 0
       THEN Ok(acc)
       ELSE IF b0 < 128
       THEN decode_from[<<data, i + 1, Append(acc, b0)>>]
       ELSE IF b0 >= 194 /\ b0 <= 223 /\ left >= 2 /\ IsCont(data[i + 1])
       THEN decode_from[<<data, i + 2,
               Append(acc, (b0 - 192) * 64 + (data[i + 1] - 128))>>]
       ELSE IF b0 >= 224 /\ b0 <= 239 /\ left >= 3
               /\ IsCont(data[i + 1]) /\ IsCont(data[i + 2])
               /\ (b0 = 224 => data[i + 1] >= 160)
               /\ (b0 = 237 => data[i + 1] <= 159)
       THEN decode_from[<<data, i + 3,
               Append(acc, (b0 - 224) * 4096 + (data[i + 1] - 128) * 64
                           + (data[i + 2] - 128))>>]
       ELSE IF b0 >= 240 /\ b0 <= 244 /\ left >= 4
               /\ IsCont(data[i + 1]) /\ IsCont(data[i + 2])
               /\ IsCont(data[i + 3])
               /\ (b0 = 240 => data[i + 1] >= 144)
               /\ (b0 = 244 => data[i + 1] <= 143)
       THEN decode_from[<<data, i + 4,
               Append(acc, (b0 - 240) * 262144 + (data[i + 1] - 128) * 4096
                           + (data[i + 2] - 128) * 64 + (data[i + 3] - 128))>>]
       ELSE Raise("UnicodeError")

\* data.decode('utf-8')
bytes_decode(data) ==
   decode_from[<<data, 1, <<>>>>]

(* ------------------------------ key, padding --------------------------- *)
\* a short passphrase filled up with zero bytes instead of repeated
prepare_key_zero_fill(key_string) ==
   LET enc == str_encode(key_string)
       key_bytes == enc.val
   IN  IF enc.exc # "none"
       THEN enc
       ELSE IF Len(key_bytes) = 0
       THEN Raise("ZeroDivisionError")
       ELSE Ok([n \in 1..8 |->
                  IF n <= Len(key_bytes) THEN key_bytes[n] ELSE 0])

\* key_string is the passphrase as code points; i % len(key_bytes) raises
\* ZeroDivisionError on the first pass when key_bytes is empty
prepare_key(key_string) ==
   LET enc == str_encode(key_string)
       key_bytes == enc.val
   IN  IF enc.exc # "none"
       THEN enc
       ELSE IF Len(key_bytes) = 0
       THEN Raise("ZeroDivisionError")
       ELSE Ok([n \in 1..8 |-> key_bytes[((n - 1) % Len(key_bytes)) + 1]])

\* no padding block for aligned input
add_padding_short(data) ==
   LET padding_length == (8 - (Len(data) % 8)) % 8
   IN  data \o [n \in 1..padding_length |-> padding_length]

add_padding(data) ==
   LET padding_length == 8 - (Len(data) % 8)
   IN  data \o [n \in 1..padding_length |-> padding_length]

\* every padding byte checked, not the last one alone
remove_padding_strict(data) ==
   IF Len(data) = 0
   THEN Ok(data)
   ELSE LET padding_length == data[Len(data)]
        IN  IF \/ padding_length < 1
               \/ padding_length > 8
               \/ padding_length > Len(data)
               \/ \E n \in (Len(data) - padding_length + 1)..Len(data) :
                     data[n] # padding_length
            THEN Raise("ValueError: Invalid padding")
            ELSE Ok(SubSeq(data, 1, Len(data) - padding_length))

\* data[:-padding_length] keeps the first len - padding_length bytes, and
\* nothing when padding_length exceeds len
remove_padding(data) ==
   IF Len(data) = 0
   THEN Ok(data)
   ELSE LET padding_length == data[Len(data)]
        IN  IF padding_length < 1 \/ padding_length > 8
            THEN Raise("ValueError: Invalid padding")
            ELSE Ok(SubSeq(data, 1, Len(data) - padding_length))

(* ------------------------------ hex codec ------------------------------ *)
UpperDigits ==
   <<"0", "1", "2", "3", "4", "5", "6", "7",
     "8", "9", "A", "B", "C", "D", "E", "F">>

LowerDigits ==
   <<"0", "1", "2", "3", "4", "5", "6", "7",
     "8", "9", "a", "b", "c", "d", "e", "f">>

\* '%02x' % b
format_02x(b) ==
   <<LowerDigits[(b \div 16) + 1], LowerDigits[(b % 16) + 1]>>

\* '%02X' % b
format_02X(b) ==
   <<UpperDigits[(b \div 16) + 1], UpperDigits[(b % 16) + 1]>>

RECURSIVE bytes_to_hex(_)
bytes_to_hex(data) ==
   IF data = <<>>
   THEN <<>>
   ELSE format_02X(Head(data)) \o bytes_to_hex(Tail(data))

IsHexDigit(c) ==
   \E v \in 1..16 : UpperDigits[v] = c \/ LowerDigits[v] = c

DigitVal(c) ==
   (CHOOSE v \in 1..16 : UpperDigits[v] = c \/ LowerDigits[v] = c) - 1

\* int(chunk, 16) for a chunk of one or two characters: surrounding blanks
\* are stripped, one sign is allowed, the rest must be hex digits
int16(chunk) ==
   LET lead  == IF chunk # <<>> /\ Head(chunk) = " " THEN Tail(chunk) ELSE chunk
       strip == IF lead # <<>> /\ lead[Len(lead)] = " "
                THEN SubSeq(lead, 1, Len(lead) - 1) ELSE lead
       neg    == strip # <<>> /\ Head(strip) = "-"
       signed == strip # <<>> /\ Head(strip) \in {"+", "-"}
       digits == IF signed THEN Tail(strip) ELSE strip
       mag    == IF Len(digits) = 1
                 THEN DigitVal(digits[1])
                 ELSE 16 * DigitVal(digits[1]) + DigitVal(digits[2])
   IN  IF digits = <<>> \/ \E n \in 1..Len(digits) : ~IsHexDigit(digits[n])
       THEN Raise("ValueError: invalid literal for int()")
       ELSE Ok(IF neg THEN 0 - mag ELSE mag)

\* hex_loop[<<hex_string, i, result>>]: the passes i, i + 2, ... of the loop
\* of hex_to_bytes; bytearray.append raises on a value outside 0..255
HexArgs ==
   Seq(STRING) \X (0..1000) \X Seq(Bytes)

hex_loop[a \in HexArgs] ==
   LET hex_string == a[1]
       i          == a[2]
       result     == a[3]
   IN  IF i >= Len(hex_string)
       THEN Ok(result)
       ELSE LET chunk == SubSeq(hex_string, i + 1,
                                IF i + 2 <= Len(hex_string)
                                THEN i + 2 ELSE Len(hex_string))
                v == int16(chunk)
            IN  IF v.exc # "none"
                THEN v
                ELSE IF v.val < 0 \/ v.val > 255
                THEN Raise("ValueError: byte must be in range(0, 256)")
                ELSE hex_loop[<<hex_string, i + 2, Append(result, v.val)>>]

hex_to_bytes(hex_string) ==
   hex_loop[<<hex_string, 0, <<>>>>]

(* ------------------------------ string service ------------------------- *)
\* encrypt_loop[<<data_bytes, i, encrypted, key_bytes>>]: the passes
\* i, i + 8, ... of the block loop of des_encrypt
\* the arguments of the block loops: data_bytes, i, the output so far, key
BlockLoopArgs ==
   Seq(Bytes) \X (0..1000) \X Seq(Bytes) \X Seq(Bytes)

encrypt_loop[a \in BlockLoopArgs] ==
   LET data_bytes == a[1]
       i          == a[2]
       encrypted  == a[3]
       key_bytes  == a[4]
   IN  IF i >= Len(data_bytes)
       THEN encrypted
       ELSE LET block == SubSeq(data_bytes, i + 1, i + 8)
                encrypted_block == des_encrypt_block(block, key_bytes)
            IN  encrypt_loop[<<data_bytes, i + 8,
                               encrypted \o encrypted_block, key_bytes>>]

\* return bytes_to_hex(encrypted)
encrypt_return(encrypted) ==
   [exc |-> "none", val |-> bytes_to_hex(encrypted),
    blocks |-> Len(encrypted) \div 8]

\* the bytes a[n] ^ b[n]
xor_bytes(a, b) ==
   [n \in 1..Len(a) |->
      LET x == ByteBits(a[n])
          y == ByteBits(b[n])
          z == [j \in 1..8 |-> IF x[j] = y[j] THEN 0 ELSE 1]
      IN  128 * z[1] + 64 * z[2] + 32 * z[3] + 16 * z[4]
          + 8 * z[5] + 4 * z[6] + 2 * z[7] + z[8]]

\* the block loop with each block chained to the ciphertext block before it
encrypt_loop_chained[a \in BlockLoopArgs] ==
   LET data_bytes == a[1]
       i          == a[2]
       encrypted  == a[3]
       key_bytes  == a[4]
   IN  IF i >= Len(data_bytes)
       THEN encrypted
       ELSE LET block == SubSeq(data_bytes, i + 1, i + 8)
                chain == IF i = 0 THEN block
                         ELSE xor_bytes(block, SubSeq(encrypted, i - 7, i))
                encrypted_block == des_encrypt_block(chain, key_bytes)
            IN  encrypt_loop_chained[<<data_bytes, i + 8,
                                       encrypted \o encrypted_block,
                                       key_bytes>>]

des_encrypt_chained(plaintext, key) ==
   LET k   == prepare_key(key)
       enc == str_encode(plaintext)
   IN  IF k.exc # "none"
       THEN [exc |-> k.exc, val |-> <<>>, blocks |-> 0]
       ELSE IF enc.exc # "none"
       THEN [exc |-> enc.exc, val |-> <<>>, blocks |-> 0]
       ELSE LET data_bytes == add_padding(enc.val)
                encrypted  == encrypt_loop_chained[<<data_bytes, 0, <<>>,
                                                     k.val>>]
            IN  encrypt_return(encrypted)

\* the outcome of des_encrypt and the number of blocks it encrypted
des_encrypt(plaintext, key) ==
   LET k   == prepare_key(key)
       enc == str_encode(plaintext)
   IN  IF k.exc # "none"
       THEN [exc |-> k.exc, val |-> <<>>, blocks |-> 0]
       ELSE IF enc.exc # "none"
       THEN [exc |-> enc.exc, val |-> <<>>, blocks |-> 0]
       ELSE LET data_bytes == add_padding(enc.val)
                encrypted  == encrypt_loop[<<data_bytes, 0, <<>>, k.val>>]
            IN  encrypt_return(encrypted)

\* decrypt_loop[<<data_bytes, i, decrypted, key_bytes>>]: the passes
\* i, i + 8, ... of the block loop of des_decrypt
decrypt_loop[a \in BlockLoopArgs] ==
   LET data_bytes == a[1]
       i          == a[2]
       decrypted  == a[3]
       key_bytes  == a[4]
   IN  IF i >= Len(data_bytes)
       THEN decrypted
       ELSE LET block == SubSeq(data_bytes, i + 1, i + 8)
                decrypted_block == des_decrypt_block(block, key_bytes)
            IN  decrypt_loop[<<data_bytes, i + 8,
                               decrypted \o decrypted_block, key_bytes>>]

\* unpadded = remove_padding(decrypted); return unpadded.decode('utf-8')
decrypt_return(decrypted) ==
   LET unpadded == remove_padding(decrypted)
       text     == bytes_decode(unpadded.val)
       n        == Len(decrypted) \div 8
   IN  IF unpadded.exc # "none"
       THEN [exc |-> unpadded.exc, val |-> <<>>, blocks |-> n]
       ELSE [exc |-> text.exc, val |-> text.val, blocks |-> n]

\* the outcome of des_decrypt and the number of blocks it decrypted
des_decrypt(ciphertext, key) ==
   LET k == prepare_key(key)
       h == hex_to_bytes(ciphertext)
   IN  IF k.exc # "none"
       THEN [exc |-> k.exc, val |-> <<>>, blocks |-> 0]
       ELSE IF h.exc # "none"
       THEN [exc |-> h.exc, val |-> <<>>, blocks |-> 0]
       ELSE IF Len(h.val) % 8 # 0
       THEN [exc |-> "ValueError: Invalid ciphertext length", val |-> <<>>,
             blocks |-> 0]
       ELSE decrypt_return(decrypt_loop[<<h.val, 0, <<>>, k.val>>])

(* ------------------------------ bounds and inputs ---------------------- *)
\* the longest plaintext, in characters
MaxLen == 16

\* the calls one behaviour makes
MaxCalls == 2

\* the longest run of "A" bytes in front of a padding test input
MaxBody == 9

\* the resets of the device one behaviour follows
MaxBoots == 2

\* the timer callbacks one behaviour follows
MaxTicks == 2

\* "AAAAAAAAAAAAAAAAAAAAAAAA"
TextA ==
   <<65, 65, 65, 65, 65, 65, 65, 65, 65, 65, 65, 65,
     65, 65, 65, 65, 65, 65, 65, 65, 65, 65, 65, 65>>

\* "12.5" followed by e-acute (two bytes in UTF-8) and digits
TextMixed ==
   <<49, 50, 46, 53, 233, 54, 55, 56, 57, 48, 49, 50,
     51, 52, 53, 54, 55, 56, 57, 48, 49, 50, 51, 52>>

\* the plaintext lengths tried: next to and on the block boundaries
Lens ==
   {n \in 0..MaxLen : n % 8 \in {0, 1, 4, 7}}

\* "1.2", a water level reading
TextLevel == <<49, 46, 50>>

Plaintexts ==
   {SubSeq(t, 1, n) : t \in {TextA, TextMixed}, n \in Lens} \cup {TextLevel}

\* "", "AB", "MySecretKey123"
KeyEmpty == << >>

KeyAB == <<65, 66>>

KeySecret == <<77, 121, 83, 101, 99, 114, 101, 116, 75, 101, 121, 49, 50, 51>>

Keys ==
   {KeyEmpty, KeyAB, KeySecret}

\* passphrases for key derivation alone: also "ABABABAB", "ABABABABC",
\* e-acute, "A" e-acute "B"
KeyStrings ==
   Keys \cup {<<65, 66, 65, 66, 65, 66, 65, 66>>,
              <<65, 66, 65, 66, 65, 66, 65, 66, 67>>,
              <<233>>, <<65, 233, 66>>}

\* hex strings handed to des_decrypt directly
HexInputs ==
   { << >>, <<"F">>, <<"0", "G">>, <<"-", "1">>,
     <<"0", "1", "2", "3", "4", "5", "6", "7",
       "8", "9", "A", "B", "C", "D", "E">>,
     <<"0", "1", "2", "3", "4", "5", "6", "7",
       "8", "9", "a", "b", "c", "d", "e", "f">> }

\* raw blocks and keys for the block cipher: the published test vector
\* 0123456789ABCDEF under 133457799BBCDFF1, and the zero block and key
BlockInputs ==
   { <<1, 35, 69, 103, 137, 171, 205, 239>>, <<0, 0, 0, 0, 0, 0, 0, 0>> }

BlockKeys ==
   { <<19, 52, 87, 121, 155, 188, 223, 241>>, <<0, 0, 0, 0, 0, 0, 0, 0>> }

\* byte sequences for the padding functions: a run of "A" and a tail
TailBytes == {0, 1, 2, 7, 8, 9, 65, 255}

Tails ==
   {<< >>} \cup {<<x>> : x \in TailBytes}
           \cup {<<x, y>> : x \in TailBytes, y \in TailBytes}

PadInputs ==
   {SubSeq(TextA, 1, m) \o t : m \in 0..MaxBody, t \in Tails}

(* ------------------------------ damage on the wire --------------------- *)
DamageKinds ==
   {"drop_last", "squeeze_last", "lower", "flip_last",
    "empty", "one_char", "half_block", "bad_digit"}

LowerOf(c) ==
   IF \E v \in 1..16 : UpperDigits[v] = c
   THEN LowerDigits[CHOOSE v \in 1..16 : UpperDigits[v] = c]
   ELSE c

\* what reaches des_decrypt when the hex string h is damaged
Damage(kind, h) ==
   CASE kind = "drop_last"    -> SubSeq(h, 1, Len(h) - 1)
     [] kind = "squeeze_last" -> SubSeq(h, 1, Len(h) - 2) \o <<h[Len(h)]>>
     [] kind = "lower"        -> [n \in 1..Len(h) |-> LowerOf(h[n])]
     [] kind = "flip_last"    ->
           [h EXCEPT ![Len(h)] = IF h[Len(h)] = "0" THEN "1" ELSE "0"]
     [] kind = "empty"        -> << >>
     [] kind = "one_char"     -> SubSeq(h, 1, 1)
     [] kind = "half_block"   -> SubSeq(h, 1, 8)
     [] kind = "bad_digit"    -> [h EXCEPT ![1] = "G"]

(* ------------------------------ state ---------------------------------- *)
VARIABLES
   call,    \* the call in progress: its function, argument and key
   ret,     \* its outcome, Pending until it returns or raises
   last,    \* the call completed before it and that call's outcome
   ncalls   \* the calls made so far

\* the firmware of main.py
VARIABLES
   pc,                   \* where the device is: see the actions of main
   USE_ENCRYPTED_MODE,   \* the module globals of that name
   ENCRYPTION_ALGORITHM,
   DES_AVAILABLE,
   main_locals,          \* what the frame of main() binds its names to
   wifi,                 \* wlan.isconnected()
   send_data_flag,
   check_status_flag,
   timers,               \* the two periodic timers are running
   pump_relay_pin,       \* the value of the pin: 0 or 1
   wire,                 \* the last request handed to urequests
   initial_done,         \* main() is past its first send since the reset
   ciphers,              \* the ciphers encrypt_water_level has used
   raised,               \* the exception that left main(), or "none"
   boots,                \* the resets so far
   ticks                 \* the timer callbacks so far

firmware_vars ==
   <<pc, USE_ENCRYPTED_MODE, ENCRYPTION_ALGORITHM, DES_AVAILABLE, main_locals,
     wifi, send_data_flag, check_status_flag, timers, pump_relay_pin, wire,
     initial_done, ciphers, raised, boots, ticks>>

vars == <<call, ret, last, ncalls, firmware_vars>>

\* a name of main() that no assignment has bound yet
Unbound == "unbound"

NoRequest ==
   [url |-> "none", field |-> "none", value |-> << >>]

\* main.py is not running: des_crypto is used on its own
FirmwareOff ==
   /\ pc = "off"
   /\ USE_ENCRYPTED_MODE = FALSE
   /\ ENCRYPTION_ALGORITHM = "DES"
   /\ DES_AVAILABLE = TRUE
   /\ main_locals = [ENCRYPTION_ALGORITHM |-> Unbound]
   /\ wifi = FALSE
   /\ send_data_flag = FALSE
   /\ check_status_flag = FALSE
   /\ timers = FALSE
   /\ pump_relay_pin = 0
   /\ wire = NoRequest
   /\ initial_done = FALSE
   /\ ciphers = {}
   /\ raised = "none"
   /\ boots = 0
   /\ ticks = 0

Pending ==
   [exc |-> "pending", val |-> << >>, blocks |-> 0]

NoCall ==
   [fn |-> "none", arg |-> << >>, key |-> << >>, exc |-> "none",
    val |-> << >>]

Call(f, a, k) ==
   [fn |-> f, arg |-> a, key |-> k]

\* the outcome of a function that runs no block cipher
Out(o) ==
   [exc |-> o.exc, val |-> o.val, blocks |-> 0]

Completed ==
   [fn |-> call.fn, arg |-> call.arg, key |-> call.key, exc |-> ret.exc,
    val |-> ret.val]

InitCalls ==
   {Call("des_encrypt", p, k) : p \in Plaintexts, k \in Keys}
   \cup {Call("des_decrypt", h, k) : h \in HexInputs, k \in Keys}
   \cup {Call("des_encrypt_block", b, k) : b \in BlockInputs, k \in BlockKeys}
   \cup {Call("prepare_key", k, << >>) : k \in KeyStrings}
   \cup {Call("add_padding", x, << >>) : x \in PadInputs}
   \cup {Call("remove_padding", x, << >>) : x \in PadInputs}

Init ==
   /\ call \in InitCalls
   /\ ret = Pending
   /\ last = NoCall
   /\ ncalls = 1
   /\ FirmwareOff

(* ------------------------------ the calls ------------------------------ *)
des_encrypt_call ==
   /\ call.fn = "des_encrypt"
   /\ ret = Pending
   /\ ret' = des_encrypt(call.arg, call.key)
   /\ UNCHANGED <<call, last, ncalls, firmware_vars>>

des_decrypt_call ==
   /\ call.fn = "des_decrypt"
   /\ ret = Pending
   /\ ret' = des_decrypt(call.arg, call.key)
   /\ UNCHANGED <<call, last, ncalls, firmware_vars>>

des_encrypt_block_call ==
   /\ call.fn = "des_encrypt_block"
   /\ ret = Pending
   /\ ret' = [exc |-> "none", val |-> des_encrypt_block(call.arg, call.key),
              blocks |-> 1]
   /\ UNCHANGED <<call, last, ncalls, firmware_vars>>

prepare_key_call ==
   /\ call.fn = "prepare_key"
   /\ ret = Pending
   /\ ret' = Out(prepare_key(call.arg))
   /\ UNCHANGED <<call, last, ncalls, firmware_vars>>

add_padding_call ==
   /\ call.fn = "add_padding"
   /\ ret = Pending
   /\ ret' = Out(Ok(add_padding(call.arg)))
   /\ UNCHANGED <<call, last, ncalls, firmware_vars>>

remove_padding_call ==
   /\ call.fn = "remove_padding"
   /\ ret = Pending
   /\ ret' = Out(remove_padding(call.arg))
   /\ UNCHANGED <<call, last, ncalls, firmware_vars>>

(* ------------------------- what the caller does next ------------------- *)
\* the ciphertext just produced is decrypted under the same key
Receive ==
   /\ call.fn = "des_encrypt"
   /\ ret.exc = "none"
   /\ ncalls < MaxCalls
   /\ call' = Call("des_decrypt", ret.val, call.key)
   /\ ret' = Pending
   /\ last' = Completed
   /\ ncalls' = ncalls + 1
   /\ UNCHANGED firmware_vars

\* the ciphertext just produced is damaged before it is decrypted
ReceiveDamaged ==
   /\ call.fn = "des_encrypt"
   /\ ret.exc = "none"
   /\ ncalls < MaxCalls
   /\ \E kind \in DamageKinds :
         call' = Call("des_decrypt", Damage(kind, ret.val), call.key)
   /\ ret' = Pending
   /\ last' = Completed
   /\ ncalls' = ncalls + 1
   /\ UNCHANGED firmware_vars

\* another message is encrypted under the same key
EncryptNext ==
   /\ call.fn = "des_encrypt"
   /\ ret.exc = "none"
   /\ ncalls < MaxCalls
   /\ \E p \in {SubSeq(TextA, 1, 0), SubSeq(TextA, 1, 8)} :
         call' = Call("des_encrypt", p, call.key)
   /\ ret' = Pending
   /\ last' = Completed
   /\ ncalls' = ncalls + 1
   /\ UNCHANGED firmware_vars

\* the padded bytes just produced are unpadded
Unpad ==
   /\ call.fn = "add_padding"
   /\ ret.exc = "none"
   /\ ncalls < MaxCalls
   /\ call' = Call("remove_padding", ret.val, << >>)
   /\ ret' = Pending
   /\ last' = Completed
   /\ ncalls' = ncalls + 1
   /\ UNCHANGED firmware_vars

Next ==
   \/ des_encrypt_call
   \/ des_decrypt_call
   \/ des_encrypt_block_call
   \/ prepare_key_call
   \/ add_padding_call
   \/ remove_padding_call
   \/ Receive
   \/ ReceiveDamaged
   \/ EncryptNext
   \/ Unpad

Spec == Init /\ [][Next]_vars

(* ------------------- the block cipher and its parts, alone ------------- *)
\* blocks for the block cipher: the published vector, all zero, all one, a
\* single bit at either end and at the start of the low word, "12.5" padded,
\* and alternating bytes
CoreBlocks ==
   BlockInputs \cup
   { <<255, 255, 255, 255, 255, 255, 255, 255>>,
     <<128, 0, 0, 0, 0, 0, 0, 0>>,
     <<0, 0, 0, 0, 0, 0, 0, 1>>,
     <<0, 0, 0, 0, 128, 0, 0, 0>>,
     <<49, 50, 46, 53, 4, 4, 4, 4>>,
     <<255, 0, 255, 0, 255, 0, 255, 0>> }

\* keys: the published one, all zero, "MySecre", "ABABABAB" as prepare_key
\* derives them, and a single bit
CoreKeys ==
   BlockKeys \cup
   { prepare_key(KeySecret).val, prepare_key(KeyAB).val,
     <<128, 0, 0, 0, 0, 0, 0, 0>> }

des_decrypt_block_call ==
   /\ call.fn = "des_decrypt_block"
   /\ ret = Pending
   /\ ret' = [exc |-> "none", val |-> des_decrypt_block(call.arg, call.key),
              blocks |-> 1]
   /\ UNCHANGED <<call, last, ncalls, firmware_vars>>

\* the positions tried: both ends of each byte of interest and of each word
BitPositions == {1, 2, 8, 9, 32, 33, 57, 64}

\* get_bit on the 64-bit value read from the 8 bytes call.arg[1]
get_bit_call ==
   /\ call.fn = "get_bit"
   /\ ret = Pending
   /\ LET hl == bytes_to_int64(call.arg[1])
      IN  ret' = [exc |-> "none",
                  val |-> <<get_bit(hl[1], hl[2], call.arg[2])>>,
                  blocks |-> 0]
   /\ UNCHANGED <<call, last, ncalls, firmware_vars>>

\* set_bit on the 64-bit value read from the 8 bytes call.arg[1], the
\* result written back to 8 bytes
set_bit_call ==
   /\ call.fn = "set_bit"
   /\ ret = Pending
   /\ LET hl == bytes_to_int64(call.arg[1])
      IN  ret' = [exc |-> "none",
                  val |-> bytes_of_pair(set_bit(hl[1], hl[2], call.arg[2],
                                                call.arg[3])),
                  blocks |-> 0]
   /\ UNCHANGED <<call, last, ncalls, firmware_vars>>

\* the round keys tried: those of rounds 1, 2 and 16
RoundNums == {0, 1, 15}

\* f_function on the low half of the 8 bytes call.arg[1] under round key
\* call.arg[2] of the key call.key: its xored value, its six_bits and its
\* result
f_function_call ==
   /\ call.fn = "f_function"
   /\ ret = Pending
   /\ LET R  == bytes_to_int64(call.arg[1])[2]
          rk == generate_round_keys(call.key)[call.arg[2] + 1]
          locals == f_function_locals(R, rk[1], rk[2])
      IN  ret' = [exc |-> "none",
                  val |-> <<locals.xored, locals.six_bits,
                            f_function(R, rk[1], rk[2])>>,
                  blocks |-> 0]
   /\ UNCHANGED <<call, last, ncalls, firmware_vars>>

\* generate_round_keys on call.key: the PC1 output, C and D before the loop,
\* C and D after each pass, and the round keys
generate_round_keys_call ==
   /\ call.fn = "generate_round_keys"
   /\ ret = Pending
   /\ LET locals == generate_round_keys_locals(call.key)
      IN  ret' = [exc |-> "none",
                  val |-> <<locals.perm, locals.CD, locals.halves,
                            generate_round_keys(call.key)>>,
                  blocks |-> 0]
   /\ UNCHANGED <<call, last, ncalls, firmware_vars>>

\* des_encrypt_block with its locals: L and R before round 1 and after
\* round 16, and the block returned
des_encrypt_block_locals_call ==
   /\ call.fn = "des_encrypt_block_locals"
   /\ ret = Pending
   /\ LET locals == des_encrypt_block_locals(call.arg, call.key)
      IN  ret' = [exc |-> "none",
                  val |-> <<locals.L0, locals.R0, locals.L16, locals.R16,
                            bytes_of_pair(locals.final)>>,
                  blocks |-> 1]
   /\ UNCHANGED <<call, last, ncalls, firmware_vars>>

\* the block just encrypted is decrypted under the same key
DecryptBlock ==
   /\ call.fn = "des_encrypt_block"
   /\ ret.exc = "none"
   /\ ncalls < MaxCalls
   /\ call' = Call("des_decrypt_block", ret.val, call.key)
   /\ ret' = Pending
   /\ last' = Completed
   /\ ncalls' = ncalls + 1
   /\ UNCHANGED firmware_vars

CoreCalls ==
   {Call("des_encrypt_block", b, k) : b \in CoreBlocks, k \in CoreKeys}
   \cup {Call("get_bit", <<b, pos>>, << >>) :
            b \in CoreBlocks, pos \in BitPositions}
   \cup {Call("f_function", <<b, round_num>>, k) :
            b \in CoreBlocks, round_num \in RoundNums, k \in CoreKeys}
   \cup {Call("generate_round_keys", << >>, k) : k \in CoreKeys \cup CoreBlocks}
   \cup {Call("des_encrypt_block_locals", b, k) :
            b \in CoreBlocks, k \in BlockKeys}
   \cup {Call("set_bit", <<b, pos, value>>, << >>) :
            b \in CoreBlocks, pos \in BitPositions, value \in {0, 1}}

CoreInit ==
   /\ call \in CoreCalls
   /\ ret = Pending
   /\ last = NoCall
   /\ ncalls = 1
   /\ FirmwareOff

CoreNext ==
   \/ des_encrypt_block_call
   \/ des_decrypt_block_call
   \/ get_bit_call
   \/ set_bit_call
   \/ f_function_call
   \/ generate_round_keys_call
   \/ des_encrypt_block_locals_call
   \/ DecryptBlock

CoreSpec == CoreInit /\ [][CoreNext]_vars
(* ------------------------------ main.py: configuration ----------------- *)
\* "MySecretKey123"
ENCRYPTION_KEY == KeySecret

\* lengths are in tenths of a centimetre: TANK_HEIGHT_CM = 10
TANK_HEIGHT_CM == 100

\* TANK_HEIGHT_CM * LOCAL_AUTO_ON_THRESHOLD_PERCENT (0.20)
on_threshold_cm == 20

\* TANK_HEIGHT_CM * LOCAL_AUTO_OFF_THRESHOLD_PERCENT (0.50)
off_threshold_cm == 50

\* TANK_HEIGHT_CM * 0.1 and TANK_HEIGHT_CM * 0.9
critical_low_cm == 10

critical_high_cm == 90

\* what read_water_level_cm returns: -1 cm when no sample was valid, else a
\* level between 0 and TANK_HEIGHT_CM; one below every threshold, one
\* between the thresholds, one above them
NoReading == -10

Levels == {NoReading, 5, 30, 95}

\* what urequests gives back: a 200 answer with the two fields, another
\* status, or an exception
Responses ==
   [kind : {"ok"}, pump_on : BOOLEAN, auto_mode : BOOLEAN]
   \cup {[kind |-> "http_error", pump_on |-> FALSE, auto_mode |-> FALSE],
         [kind |-> "exception", pump_on |-> FALSE, auto_mode |-> FALSE]}

(* ------------------------------ main.py: encryption -------------------- *)
\* "{:.1f}".format(level), as character codes, for a level in tenths
format_1f(level) ==
   (IF level \div 10 >= 10
    THEN <<48 + (level \div 100), 48 + ((level \div 10) % 10)>>
    ELSE <<48 + (level \div 10)>>)
   \o <<46, 48 + (level % 10)>>

\* x ^ y on two bytes
xor_byte(x, y) ==
   LET a == ByteBits(x)
       b == ByteBits(y)
       z == [j \in 1..8 |-> IF a[j] = b[j] THEN 0 ELSE 1]
   IN  128 * z[1] + 64 * z[2] + 32 * z[3] + 16 * z[4]
       + 8 * z[5] + 4 * z[6] + 2 * z[7] + z[8]

RECURSIVE xor_loop(_, _, _)
\* the hex digits for the characters i, i + 1, ... of data_str
xor_loop(data_str, key, i) ==
   IF i >= Len(data_str)
   THEN << >>
   ELSE format_02X(xor_byte(data_str[i + 1], key[(i % Len(key)) + 1]))
        \o xor_loop(data_str, key, i + 1)

\* None stands for the None a caught exception leaves
None == [none |-> TRUE, val |-> << >>]

Some(v) == [none |-> FALSE, val |-> v]

encrypt_water_level_xor(level, key) ==
   IF key = << >>
   THEN None
   ELSE Some(xor_loop(format_1f(level), key, 0))

\* what encrypt_water_level_des makes of the outcome of des_encrypt
des_or_none(encrypted_hex) ==
   IF encrypted_hex.exc = "none" THEN Some(encrypted_hex.val) ELSE None

encrypt_water_level_des(level, key) ==
   des_or_none(des_encrypt(format_1f(level), key))

\* the cipher encrypt_water_level chooses, from the module globals
chosen_cipher(algorithm, des_available) ==
   IF algorithm = "DES" /\ des_available THEN "DES" ELSE "XOR"

encrypt_water_level(level, key, algorithm, des_available) ==
   IF algorithm = "DES" /\ des_available
   THEN encrypt_water_level_des(level, key)
   ELSE encrypt_water_level_xor(level, key)

\* the verdict of test_des_esp32: exc when des_encrypt or des_decrypt raise
self_test_verdict(plaintext, decrypted) ==
   [exc |-> decrypted.exc, passed |-> decrypted.val = plaintext]

self_test_decrypt(plaintext, key, encrypted) ==
   IF encrypted.exc # "none"
   THEN [exc |-> encrypted.exc, passed |-> FALSE]
   ELSE self_test_verdict(plaintext, des_decrypt(encrypted.val, key))

test_des_esp32 ==
   self_test_decrypt(<<49, 50, 46, 53>>, KeySecret,
                     des_encrypt(<<49, 50, 46, 53>>, KeySecret))

(* ------------------------------ main.py: pump and server --------------- *)
\* the value control_pump leaves on the relay pin
control_pump(turn_on) ==
   IF turn_on THEN 1 ELSE 0

\* the pin after handle_server_response, current_level being what its own
\* read_water_level_cm returns
handle_server_response(pin, pump_on_from_server, auto_mode_from_server, current_level) ==
   IF auto_mode_from_server
   THEN IF current_level < 0
        THEN pin
        ELSE IF current_level <= on_threshold_cm
        THEN control_pump(TRUE)
        ELSE IF current_level >= off_threshold_cm
        THEN control_pump(FALSE)
        ELSE pin
   ELSE control_pump(pump_on_from_server)

\* the pin after handle_server_or_sensor_error
handle_server_or_sensor_error(pin, is_server_error, current_level) ==
   IF current_level >= 0
   THEN IF current_level < critical_low_cm
        THEN control_pump(TRUE)
        ELSE IF current_level > critical_high_cm
        THEN control_pump(FALSE)
        ELSE pin
   ELSE IF is_server_error
   THEN control_pump(FALSE)
   ELSE pin

\* the try block shared by the three request functions: the pin after the
\* answer resp, current_level being the reading of the handler it calls
after_response(pin, resp, current_level) ==
   IF resp.kind = "ok"
   THEN handle_server_response(pin, resp.pump_on, resp.auto_mode,
                               current_level)
   ELSE handle_server_or_sensor_error(pin, TRUE, current_level)

Request(u, f, v) ==
   [url |-> u, field |-> f, value |-> v]

\* each of the three functions gives the pin, the request and the cipher it
\* leaves; used is "none" when encrypt_water_level was not called
Outcome(pin, request, used) ==
   [pin |-> pin, wire |-> request, used |-> used]

send_water_level_to_server(pin, request, water_level, resp, current_level) ==
   IF water_level < 0
   THEN Outcome(handle_server_or_sensor_error(pin, FALSE, current_level),
                request, "none")
   ELSE Outcome(after_response(pin, resp, current_level),
                Request("/data", "level_cm", <<water_level>>), "none")

\* send_encrypted_water_level_to_server from the encrypted level on
send_encrypted_level(pin, request, encrypted_level, used, resp, current_level) ==
   IF encrypted_level.none
   THEN Outcome(handle_server_or_sensor_error(pin, FALSE, current_level),
                request, used)
   ELSE Outcome(after_response(pin, resp, current_level),
                Request("/encrypted-data", "encrypted_level",
                        encrypted_level.val), used)

send_encrypted_water_level_to_server(pin, request, water_level, resp, current_level, algorithm, des_available) ==
   IF water_level < 0
   THEN Outcome(handle_server_or_sensor_error(pin, FALSE, current_level),
                request, "none")
   ELSE send_encrypted_level(pin, request,
           encrypt_water_level(water_level, ENCRYPTION_KEY, algorithm,
                               des_available),
           chosen_cipher(algorithm, des_available), resp, current_level)

check_pump_status_from_server(pin, resp, current_level) ==
   Outcome(after_response(pin, resp, current_level),
           Request("/status", "none", << >>), "none")

(* ------------------------------ main.py: the device -------------------- *)
call_vars == <<call, ret, last, ncalls>>

config_vars == <<USE_ENCRYPTED_MODE, ENCRYPTION_ALGORITHM, DES_AVAILABLE>>

\* machine.reset(): the module is loaded again, the pump pin set to 0, the
\* flags to False, and main() called with a new frame
Reset ==
   /\ pc' = "main"
   /\ main_locals' = [ENCRYPTION_ALGORITHM |-> Unbound]
   /\ wifi' = FALSE
   /\ send_data_flag' = FALSE
   /\ check_status_flag' = FALSE
   /\ timers' = FALSE
   /\ pump_relay_pin' = 0
   /\ wire' = NoRequest
   /\ initial_done' = FALSE
   /\ raised' = "none"
   /\ boots' = boots + 1
   /\ UNCHANGED <<config_vars, ciphers, ticks, call_vars>>

\* an exception leaves main() for the handler under __main__
Propagate(e) ==
   /\ pc' = "raised"
   /\ raised' = e

\* a request function has returned
Leave(o) ==
   /\ pump_relay_pin' = o.pin
   /\ wire' = o.wire
   /\ ciphers' = IF o.used = "none" THEN ciphers ELSE ciphers \cup {o.used}

\* the send of the mode configured, on the readings and the answer given
send_by_mode(water_level, resp, current_level) ==
   IF USE_ENCRYPTED_MODE
   THEN send_encrypted_water_level_to_server(pump_relay_pin, wire,
           water_level, resp, current_level, ENCRYPTION_ALGORITHM,
           DES_AVAILABLE)
   ELSE send_water_level_to_server(pump_relay_pin, wire, water_level, resp,
                                   current_level)

\* main() reads its name ENCRYPTION_ALGORITHM, which line 472 makes a local
\* of main(): NameError unless that line has run
reads_unbound_local ==
   USE_ENCRYPTED_MODE /\ main_locals.ENCRYPTION_ALGORITHM = Unbound

\* lines 452-455: connect_wifi(), and the reset when it fails
main_connect_wifi ==
   /\ pc = "main"
   /\ \E connected \in BOOLEAN :
         IF connected
         THEN /\ wifi' = TRUE
              /\ pc' = "startup"
              /\ UNCHANGED <<config_vars, main_locals, send_data_flag,
                             check_status_flag, timers, pump_relay_pin, wire,
                             initial_done, ciphers, raised, boots, ticks,
                             call_vars>>
         ELSE /\ boots < MaxBoots
              /\ Reset

\* lines 466-472, given the verdict of the self-test
after_self_test(verdict) ==
   IF verdict.exc # "none"
   THEN Propagate(verdict.exc) /\ UNCHANGED main_locals
   ELSE IF verdict.passed
   THEN pc' = "initial_send" /\ UNCHANGED <<main_locals, raised>>
   ELSE /\ main_locals' = [main_locals EXCEPT !.ENCRYPTION_ALGORITHM = "XOR"]
        /\ pc' = "initial_send"
        /\ UNCHANGED raised

\* lines 457-478: the startup banner and the self-test
main_startup ==
   /\ pc = "startup"
   /\ IF ~ USE_ENCRYPTED_MODE
      THEN pc' = "initial_send" /\ UNCHANGED <<main_locals, raised>>
      ELSE IF reads_unbound_local
      THEN Propagate("NameError") /\ UNCHANGED main_locals
      ELSE IF main_locals.ENCRYPTION_ALGORITHM = "DES" /\ DES_AVAILABLE
      THEN after_self_test(test_des_esp32)
      ELSE pc' = "initial_send" /\ UNCHANGED <<main_locals, raised>>
   /\ UNCHANGED <<config_vars, wifi, send_data_flag, check_status_flag,
                  timers, pump_relay_pin, wire, initial_done, ciphers, boots,
                  ticks, call_vars>>

\* lines 480-485: the first send
main_initial_send ==
   /\ pc = "initial_send"
   /\ \E water_level \in Levels, current_level \in Levels, resp \in Responses :
         Leave(send_by_mode(water_level, resp, current_level))
   /\ pc' = "init_timers"
   /\ initial_done' = TRUE
   /\ UNCHANGED <<config_vars, main_locals, wifi, send_data_flag,
                  check_status_flag, timers, raised, boots, ticks, call_vars>>

\* lines 487-501: the timers are started and the mode is printed
main_init_timers ==
   /\ pc = "init_timers"
   /\ timers' = TRUE
   /\ IF reads_unbound_local
      THEN Propagate("NameError")
      ELSE pc' = "loop" /\ UNCHANGED raised
   /\ UNCHANGED <<config_vars, main_locals, wifi, send_data_flag,
                  check_status_flag, pump_relay_pin, wire, initial_done,
                  ciphers, boots, ticks, call_vars>>

data_timer_callback ==
   /\ timers
   /\ ticks < MaxTicks
   /\ send_data_flag' = TRUE
   /\ ticks' = ticks + 1
   /\ UNCHANGED <<pc, config_vars, main_locals, wifi, check_status_flag,
                  timers, pump_relay_pin, wire, initial_done, ciphers, raised,
                  boots, call_vars>>

status_timer_callback ==
   /\ timers
   /\ ticks < MaxTicks
   /\ check_status_flag' = TRUE
   /\ ticks' = ticks + 1
   /\ UNCHANGED <<pc, config_vars, main_locals, wifi, send_data_flag, timers,
                  pump_relay_pin, wire, initial_done, ciphers, raised, boots,
                  call_vars>>

\* lines 505-511: the connection is checked, and made again when lost
loop_wifi ==
   /\ pc = "loop"
   /\ \E connected \in BOOLEAN, reconnected \in BOOLEAN :
         /\ wifi' = (connected \/ reconnected)
         /\ pc' = IF connected \/ reconnected THEN "loop_send" ELSE "loop"
   /\ UNCHANGED <<config_vars, main_locals, send_data_flag, check_status_flag,
                  timers, pump_relay_pin, wire, initial_done, ciphers, raised,
                  boots, ticks, call_vars>>

\* lines 513-523: the send the data timer asked for
loop_send ==
   /\ pc = "loop_send"
   /\ IF ~ send_data_flag
      THEN /\ pc' = "loop_status"
           /\ UNCHANGED <<send_data_flag, pump_relay_pin, wire, ciphers,
                          raised>>
      ELSE /\ send_data_flag' = FALSE
           /\ IF reads_unbound_local
              THEN /\ Propagate("NameError")
                   /\ UNCHANGED <<pump_relay_pin, wire, ciphers>>
              ELSE /\ \E water_level \in Levels, current_level \in Levels,
                         resp \in Responses :
                         Leave(send_by_mode(water_level, resp, current_level))
                   /\ pc' = "loop_status"
                   /\ UNCHANGED raised
   /\ UNCHANGED <<config_vars, main_locals, wifi, check_status_flag, timers,
                  initial_done, boots, ticks, call_vars>>

\* lines 526-532: the status check the status timer asked for
loop_status ==
   /\ pc = "loop_status"
   /\ IF ~ check_status_flag
      THEN UNCHANGED <<check_status_flag, pump_relay_pin, wire, ciphers>>
      ELSE /\ check_status_flag' = FALSE
           /\ \E current_level \in Levels, resp \in Responses :
                 Leave(check_pump_status_from_server(pump_relay_pin, resp,
                                                     current_level))
   /\ pc' = "loop"
   /\ UNCHANGED <<config_vars, main_locals, wifi, send_data_flag, timers,
                  initial_done, raised, boots, ticks, call_vars>>

\* lines 535-542: the exception is printed and the device reset
main_guard ==
   /\ pc = "raised"
   /\ boots < MaxBoots
   /\ Reset

MainInit ==
   /\ pc = "main"
   /\ USE_ENCRYPTED_MODE \in BOOLEAN
   /\ ENCRYPTION_ALGORITHM \in {"XOR", "DES"}
   /\ DES_AVAILABLE \in BOOLEAN
   /\ main_locals = [ENCRYPTION_ALGORITHM |-> Unbound]
   /\ wifi = FALSE
   /\ send_data_flag = FALSE
   /\ check_status_flag = FALSE
   /\ timers = FALSE
   /\ pump_relay_pin = 0
   /\ wire = NoRequest
   /\ initial_done = FALSE
   /\ ciphers = {}
   /\ raised = "none"
   /\ boots = 0
   /\ ticks = 0
   /\ call = Call("none", << >>, << >>)
   /\ ret = Pending
   /\ last = NoCall
   /\ ncalls = 0

MainNext ==
   \/ main_connect_wifi
   \/ main_startup
   \/ main_initial_send
   \/ main_init_timers
   \/ data_timer_callback
   \/ status_timer_callback
   \/ loop_wifi
   \/ loop_send
   \/ loop_status
   \/ main_guard

MainSpec == MainInit /\ [][MainNext]_vars
(* ------------------------------ claims --------------------------------- *)
\* the failures of the specification, as the exceptions the code raises
InvalidCiphertextLength == "ValueError: Invalid ciphertext length"

InvalidPadding == "ValueError: Invalid padding"

MalformedHex ==
   {"ValueError: invalid literal for int()",
    "ValueError: byte must be in range(0, 256)"}

Returned == ret # Pending

\* the call in progress decrypts, under the same key, exactly the hex string
\* that the call before it encrypted
IsRoundTrip ==
   /\ call.fn = "des_decrypt"
   /\ last.fn = "des_encrypt"
   /\ last.exc = "none"
   /\ call.arg = last.val
   /\ call.key = last.key

\* C1: under a non-empty passphrase des_encrypt raises nothing, and
\* des_decrypt of its result under the same passphrase raises nothing and
\* returns exactly the plaintext that was encrypted.
C1_RoundTrip ==
   /\ (call.fn = "des_encrypt" /\ call.key # << >> /\ Returned)
         => ret.exc = "none"
   /\ (IsRoundTrip /\ Returned)
         => (ret.exc = "none" /\ ret.val = last.arg)

\* a round trip of a plaintext of 7 characters whose encoding has 8 bytes
C1_Witness ==
   /\ IsRoundTrip
   /\ Returned
   /\ last.arg = SubSeq(TextMixed, 1, 7)
   /\ Len(str_encode(last.arg).val) = 8
   /\ ret.val = last.arg

\* C2: des_encrypt_block of the block 01 23 45 67 89 AB CD EF under the key
\* bytes 13 34 57 79 9B BC DF F1 returns 85 E8 13 54 0F 0A B4 05.
C2_KnownAnswer ==
   (/\ call.fn = "des_encrypt_block"
    /\ call.arg = <<1, 35, 69, 103, 137, 171, 205, 239>>
    /\ call.key = <<19, 52, 87, 121, 155, 188, 223, 241>>
    /\ Returned)
      => ret.val = <<133, 232, 19, 84, 15, 10, 180, 5>>

\* C3: des_decrypt of a hex string of odd length under a non-empty
\* passphrase fails with MalformedHex or InvalidCiphertextLength and decrypts
\* no block.
C3_OddLengthRejected ==
   (/\ call.fn = "des_decrypt"
    /\ Len(call.arg) % 2 = 1
    /\ call.key # << >>
    /\ Returned)
      => (/\ ret.exc \in MalformedHex \cup {InvalidCiphertextLength}
          /\ ret.blocks = 0)

\* C4: des_decrypt fails with InvalidCiphertextLength whenever the decoded
\* ciphertext is not a positive multiple of 8 bytes, the empty one included.
C4_PositiveMultipleOf8 ==
   (/\ call.fn = "des_decrypt"
    /\ call.key # << >>
    /\ Returned
    /\ hex_to_bytes(call.arg).exc = "none"
    /\ ~ (/\ Len(hex_to_bytes(call.arg).val) > 0
          /\ Len(hex_to_bytes(call.arg).val) % 8 = 0))
      => ret.exc = InvalidCiphertextLength

\* C5: des_encrypt and des_decrypt under a zero-length passphrase fail, and
\* not by a division or modulo by zero.
C5_EmptyKeyTyped ==
   (/\ call.fn \in {"des_encrypt", "des_decrypt"}
    /\ call.key = << >>
    /\ Returned)
      => (ret.exc # "none" /\ ret.exc # "ZeroDivisionError")

\* the call in progress unpads exactly what the call before it padded
IsUnpadOfPad ==
   /\ call.fn = "remove_padding"
   /\ last.fn = "add_padding"
   /\ call.arg = last.val

\* C6: add_padding(x) is x followed by n bytes of value n, n = 8 - (len(x)
\* mod 8) in 1..8, so its length is a multiple of 8 greater than len(x); and
\* remove_padding of it returns x.
C6_Padding ==
   /\ (call.fn = "add_padding" /\ Returned)
         => LET x == call.arg
                r == ret.val
                n == Len(r) - Len(x)
            IN  /\ n = 8 - (Len(x) % 8)
                /\ n \in 1..8
                /\ (Len(x) % 8 = 0 => n = 8)
                /\ SubSeq(r, 1, Len(x)) = x
                /\ \A i \in (Len(x) + 1)..Len(r) : r[i] = n
                /\ Len(r) % 8 = 0
                /\ Len(r) > Len(x)
   /\ (IsUnpadOfPad /\ Returned)
         => (ret.exc = "none" /\ ret.val = last.arg)

\* 8 bytes, already aligned, padded with a full block and unpadded again
C6_Witness ==
   /\ IsUnpadOfPad
   /\ Returned
   /\ Len(last.arg) = 8
   /\ Len(call.arg) = 16
   /\ ret.val = last.arg

\* C7: remove_padding returns an empty input unchanged; on a non-empty input
\* with last byte n it raises InvalidPadding exactly when n < 1 or n > 8 and
\* otherwise returns the input without its last n bytes, whatever the other
\* trailing bytes are.
C7_LastByteOnly ==
   (call.fn = "remove_padding" /\ Returned)
      => LET x == call.arg
             n == x[Len(x)]
         IN  IF x = << >>
             THEN ret.exc = "none" /\ ret.val = x
             ELSE IF n < 1 \/ n > 8
             THEN ret.exc = InvalidPadding
             ELSE /\ ret.exc = "none"
                  /\ ret.val = SubSeq(x, 1, Len(x) - n)

\* an input ending in 65, 2 loses two bytes although 65 is no padding byte
C7_Witness ==
   /\ call.fn = "remove_padding"
   /\ Returned
   /\ Len(call.arg) >= 3
   /\ call.arg[Len(call.arg)] = 2
   /\ call.arg[Len(call.arg) - 1] = 65
   /\ ret.exc = "none"
   /\ Len(ret.val) = Len(call.arg) - 2

\* C8: for a non-empty passphrase with encoded bytes b, prepare_key returns
\* 8 bytes with key[i] = b[i mod len(b)]; "AB" and "ABABABAB" both derive
\* 41 42 41 42 41 42 41 42, and 9 bytes derive their first 8.
C8_KeyCycling ==
   (call.fn = "prepare_key" /\ call.arg # << >> /\ Returned)
      => LET b == str_encode(call.arg).val
         IN  /\ ret.exc = "none"
             /\ Len(ret.val) = 8
             /\ \A i \in 0..7 : ret.val[i + 1] = b[(i % Len(b)) + 1]
             /\ (call.arg \in {KeyAB, <<65, 66, 65, 66, 65, 66, 65, 66>>}
                    => ret.val = <<65, 66, 65, 66, 65, 66, 65, 66>>)
             /\ (Len(b) >= 8 => ret.val = SubSeq(b, 1, 8))

\* "A" e-acute "B" has the 4 bytes 41 C3 A9 42, cycled twice
C8_Witness ==
   /\ call.fn = "prepare_key"
   /\ Returned
   /\ call.arg = <<65, 233, 66>>
   /\ ret.val = <<65, 195, 169, 66, 65, 195, 169, 66>>

\* the (key, padded plaintext block, ciphertext block) triples of an
\* encryption of plaintext p under passphrase k that returned the hex h
BlockTriples(p, k, h) ==
   LET data == add_padding(str_encode(p).val)
   IN  { << prepare_key(k).val,
            SubSeq(data, 8 * i + 1, 8 * i + 8),
            SubSeq(h, 16 * i + 1, 16 * i + 16) >> :
         i \in 0..((Len(data) \div 8) - 1) }

\* the triples of the encryptions that have returned: the call in progress
\* and the call before it
SeenTriples ==
   (IF call.fn = "des_encrypt" /\ Returned /\ ret.exc = "none"
    THEN BlockTriples(call.arg, call.key, ret.val) ELSE {})
   \cup
   (IF last.fn = "des_encrypt" /\ last.exc = "none"
    THEN BlockTriples(last.arg, last.key, last.val) ELSE {})

\* C9: ciphertext block i depends on padded plaintext block i and the key
\* only: equal blocks under the same key, in one message or in two, give
\* equal ciphertext blocks.
C9_ECB ==
   \A e1 \in SeenTriples : \A e2 \in SeenTriples :
      (e1[1] = e2[1] /\ e1[2] = e2[2]) => e1[3] = e2[3]

\* 16 "A" encrypted and then 8 "A" under the same key: the block of 8 "A"
\* occurs twice in the first message and once in the second
C9_Witness ==
   /\ call.fn = "des_encrypt"
   /\ Returned
   /\ ret.exc = "none"
   /\ last.fn = "des_encrypt"
   /\ last.arg = SubSeq(TextA, 1, 16)
   /\ call.arg = SubSeq(TextA, 1, 8)
   /\ SubSeq(last.val, 1, 16) = SubSeq(last.val, 17, 32)
   /\ SubSeq(last.val, 1, 16) = SubSeq(ret.val, 1, 16)
   /\ Cardinality(SeenTriples) = 2

\* C10: under a non-empty key des_encrypt returns uppercase hex digits only,
\* 16 for each block, the blocks being floor(len(utf8(p)) / 8) + 1.
C10_Format ==
   (call.fn = "des_encrypt" /\ call.key # << >> /\ Returned)
      => /\ ret.exc = "none"
         /\ \A i \in 1..Len(ret.val) :
               \E v \in 1..16 : ret.val[i] = UpperDigits[v]
         /\ Len(ret.val)
               = 16 * ((Len(str_encode(call.arg).val) \div 8) + 1)

\* 15 characters of 16 bytes give 3 blocks, 48 digits, letters among them
C10_Witness ==
   /\ call.fn = "des_encrypt"
   /\ Returned
   /\ call.arg = SubSeq(TextMixed, 1, 15)
   /\ Len(ret.val) = 48
   /\ \E i \in 1..48 : ret.val[i] \in {"A", "B", "C", "D", "E", "F"}

(* ------------------------------ claims on the block cipher ------------- *)
\* the call in progress decrypts, under the same key, exactly the block that
\* the call before it encrypted
IsBlockRoundTrip ==
   /\ call.fn = "des_decrypt_block"
   /\ last.fn = "des_encrypt_block"
   /\ call.arg = last.val
   /\ call.key = last.key

\* C11: des_decrypt_block runs the rounds of des_encrypt_block with the 16
\* round keys taken in the order 16 down to 1, each once, and
\* des_decrypt_block(des_encrypt_block(b, k), k) = b for every block b and
\* key k.
C11_BlockInverse ==
   /\ reverse_rounds = [n \in 1..16 |-> forward_rounds[17 - n]]
   /\ {forward_rounds[n] : n \in 1..16} = 0..15
   /\ (IsBlockRoundTrip /\ Returned) => ret.val = last.arg

\* the block 80 00 00 00 00 00 00 00 under the key of "MySecretKey123" is
\* changed by encryption and restored by decryption
C11_Witness ==
   /\ IsBlockRoundTrip
   /\ Returned
   /\ last.arg = <<128, 0, 0, 0, 0, 0, 0, 0>>
   /\ last.key = prepare_key(KeySecret).val
   /\ call.arg # last.arg
   /\ ret.val = last.arg

\* bit pos (1..64) of 8 bytes, counted from the most significant bit of the
\* first byte
MsbFirstBit(bytes, pos) ==
   ByteBits(bytes[((pos - 1) \div 8) + 1])[((pos - 1) % 8) + 1]

\* C12: get_bit and set_bit number the positions 1..64 from the most
\* significant bit of the full value: position 1 is the top bit of the first
\* byte (the high word) and position 64 the bottom bit of the last byte.
C12_MsbFirst ==
   /\ (call.fn = "get_bit" /\ Returned)
         => ret.val[1] = MsbFirstBit(call.arg[1], call.arg[2])
   /\ (call.fn = "set_bit" /\ Returned)
         => \A q \in 1..64 :
               MsbFirstBit(ret.val, q)
                  = IF q = call.arg[2] THEN call.arg[3]
                    ELSE MsbFirstBit(call.arg[1], q)

\* bits first .. first + 5 of the value (high, low), in the numbering of
\* get_bit in which permute wrote them, read as a 6-bit number
SixBitsFrom(hl, first) ==
   32 * get_bit(hl[1], hl[2], first) + 16 * get_bit(hl[1], hl[2], first + 1)
   + 8 * get_bit(hl[1], hl[2], first + 2)
   + 4 * get_bit(hl[1], hl[2], first + 3)
   + 2 * get_bit(hl[1], hl[2], first + 4) + get_bit(hl[1], hl[2], first + 5)

\* C13: f_function splits the 48-bit XOR of the expanded half and the round
\* key into eight consecutive groups, group g (0..7) being its bits 6g + 1
\* .. 6g + 6, so that each of the 48 bits is in exactly one group; group g
\* goes to S-box g.
C13_Grouping ==
   (call.fn = "f_function" /\ Returned)
      => \A g \in 0..7 : ret.val[2][g + 1] = SixBitsFrom(ret.val[1], 6 * g + 1)

\* bit j (1..28, most significant first) of a 28-bit half held in a word
HalfBit(w, j) == w[4 + j]

\* C14: generate_round_keys splits the 56-bit output of PC1 into
\* C = output bits 1..28 and D = output bits 29..56 (output bit i being the
\* one permute wrote for PC1[i]), so that every selected key bit is in
\* exactly one of C and D and none is dropped or replaced by a constant.
C14_Split ==
   (call.fn = "generate_round_keys" /\ Returned)
      => LET perm == ret.val[1]
             C    == ret.val[2][1]
             D    == ret.val[2][2]
         IN  \A j \in 1..28 :
                /\ HalfBit(C, j) = get_bit(perm[1], perm[2], j)
                /\ HalfBit(D, j) = get_bit(perm[1], perm[2], 28 + j)

\* the rotation of round r (1..16): 1 in rounds 1, 2, 9 and 16, else 2
ShiftOf(r) == IF r \in {1, 2, 9, 16} THEN 1 ELSE 2

\* the rotations of rounds 1 .. r together
RECURSIVE ShiftSum(_)
ShiftSum(r) == IF r = 0 THEN 0 ELSE ShiftSum(r - 1) + ShiftOf(r)

\* w is the 28-bit half v rotated left by s, circularly: no bit above the
\* 28 and every bit of v kept
IsRotation28(w, v, s) ==
   /\ \A j \in 1..4 : w[j] = 0
   /\ \A j \in 1..28 : HalfBit(w, j) = HalfBit(v, ((j - 1 + s) % 28) + 1)

\* C15: in round r = 1..16 both C and D are rotated left circularly within
\* 28 bits by 1 position in rounds 1, 2, 9, 16 and by 2 otherwise, each
\* round starting from the halves of the round before; 16 round keys come
\* out, round key r being PC2 of the halves of round r.
C15_Rotation ==
   (call.fn = "generate_round_keys" /\ Returned)
      => LET C0     == And(ret.val[2][1], Word(268435455))
             D0     == And(ret.val[2][2], Word(268435455))
             halves == ret.val[3]
             keys   == ret.val[4]
         IN  /\ Len(halves) = 16
             /\ Len(keys) = 16
             /\ \A r \in 1..16 :
                   /\ IsRotation28(halves[r][1], C0, ShiftSum(r))
                   /\ IsRotation28(halves[r][2], D0, ShiftSum(r))
                   /\ IsRotation28(halves[r][1],
                         IF r = 1 THEN C0 ELSE halves[r - 1][1], ShiftOf(r))
                   /\ IsRotation28(halves[r][2],
                         IF r = 1 THEN D0 ELSE halves[r - 1][2], ShiftOf(r))
                   /\ keys[r] = permute(
                         Or(Shl(halves[r][1], 4), Shr(halves[r][2], 24)),
                         Shl(halves[r][2], 8), PC2)

\* the key 41 42 41 42 41 42 41 42: the top bit of C wraps round to the
\* bottom in round 1, and after the 28 positions of all 16 rounds the halves
\* are back where they started
C15_Witness ==
   /\ call.fn = "generate_round_keys"
   /\ Returned
   /\ call.key = <<65, 66, 65, 66, 65, 66, 65, 66>>
   /\ HalfBit(ret.val[2][1], 1) = 1
   /\ HalfBit(ret.val[3][1][1], 28) = 1
   /\ ret.val[3][1][1] # ret.val[2][1]
   /\ ret.val[3][16] = ret.val[2]
   /\ ShiftSum(16) = 28

\* C16: in des_encrypt_block L is bits 1..32 and R bits 33..64 of the
\* output of the initial permutation (output bit i being the source bit
\* IP[i]), and the value given to the final permutation after round 16 has
\* R as its bits 1..32 and L as its bits 33..64, so that bit i of the
\* returned block is bit FP[i] of (R, L).
C16_Framing ==
   (call.fn = "des_encrypt_block_locals" /\ Returned)
      => LET src == bytes_to_int64(call.arg)
             L0  == ret.val[1]
             R0  == ret.val[2]
             L16 == ret.val[3]
             R16 == ret.val[4]
             out == bytes_to_int64(ret.val[5])
         IN  /\ \A j \in 1..32 :
                   /\ L0[j] = get_bit(src[1], src[2], IP[j])
                   /\ R0[j] = get_bit(src[1], src[2], IP[32 + j])
             /\ \A i \in 1..64 :
                   get_bit(out[1], out[2], i)
                      = IF FP[i] <= 32 THEN R16[FP[i]] ELSE L16[FP[i] - 32]

(* ------------------------------ claims on the firmware ----------------- *)
\* C18: with USE_ENCRYPTED_MODE on and the WiFi connection made, no run of
\* main() ends in an exception before the first
\* send_encrypted_water_level_to_server: main() gets to that send and on to
\* the periodic loop.
C18_StartupProgress ==
   (USE_ENCRYPTED_MODE /\ wifi /\ ~ initial_done) => pc # "raised"
====
